---------------------------- MODULE Spec2Model ----------------------------
(***************************************************************************)
(* Verification model of ayushkssk/youtube-downloader.                     *)
(*                                                                         *)
(*   SpecCLI  - src/youtube_downloader.py: main, download_video,           *)
(*              list_available_formats, download_multiple_videos           *)
(*              (sequential loop and ThreadPoolExecutor path).             *)
(*   SpecGUI  - src/youtube_downloader_gui.py: the VideoDownloaderGUI      *)
(*              session controller, its worker thread and the Tk timer     *)
(*              queue that carries root.after callbacks.                   *)
(***************************************************************************)
EXTENDS Integers, Sequences, FiniteSets, TLC

VARIABLES
    \* ---- command line program (youtube_downloader.py) ----
    args,        \* argparse.Namespace returned by parse_arguments
    pc,          \* position of the main thread
    idx,         \* loop cursor of "for url in urls" (submit loop / sequential loop)
    task,        \* per URL: state of its download_video call
    yielded,     \* futures already produced by as_completed
    pending,     \* exit status carried by a propagating SystemExit (0 = none)
    exit_code,   \* process exit status, -1 while the process runs
    listing,     \* state of the list_available_formats call
    dir_exists,  \* os.path.exists(output_dir)
    handed,      \* option bundles handed to yt_dlp.YoutubeDL by download_video
    \* ---- GUI (youtube_downloader_gui.py) ----
    url_entry,             \* text of the URL entry
    title_var, size_var, format_var, platform_var,   \* the info labels
    video_info,            \* self.video_info (<<>> is None)
    download_button, cancel_button, play_button,     \* widget states
    progress_var, status_var, log_text,
    is_downloading,        \* self.is_downloading
    ydl,                   \* self.ydl
    last_downloaded_file,  \* self.last_downloaded_file (<<>> is None)
    download_thread,       \* self.download_thread (0 is None)
    threads,               \* the worker threads started so far
    timers,                \* Tk timer queue: pending root.after callbacks
    dialogs,               \* open message boxes, topmost last
    callback_errors,       \* exceptions Tk reported from a callback
    cancel_tick,           \* flips at every call of cancel_download
    out_dir_exists,        \* os.path.exists(output_dir) for the GUI
    probe_results          \* what extract_info(download=False) can return

cli_vars == <<args, pc, idx, task, yielded, pending, exit_code, listing,
              dir_exists, handed>>


----------------------------------------------------------------------------
(* Bounds and program constants *)

\* largest number of comma separated URLs on the command line
MaxUrls == 5

\* ThreadPoolExecutor(max_workers=min(len(urls), 4))
MaxWorkers == 4

Min(a, b) == IF a <= b THEN a ELSE b

----------------------------------------------------------------------------
(* Text helpers: strings that the program searches are sequences of one-   *)
(* character strings, so that strip(), lower() and "x in s" are computed.  *)

Whitespace == {" ", "\t", "\n"}

UpperToLower ==
    [c \in {"A", "B", "C", "D", "E", "F", "G", "H", "I", "J", "K", "L", "M",
            "N", "O", "P", "Q", "R", "S", "T", "U", "V", "W", "X", "Y", "Z"} |->
        CASE c = "A" -> "a" [] c = "B" -> "b" [] c = "C" -> "c" [] c = "D" -> "d"
          [] c = "E" -> "e" [] c = "F" -> "f" [] c = "G" -> "g" [] c = "H" -> "h"
          [] c = "I" -> "i" [] c = "J" -> "j" [] c = "K" -> "k" [] c = "L" -> "l"
          [] c = "M" -> "m" [] c = "N" -> "n" [] c = "O" -> "o" [] c = "P" -> "p"
          [] c = "Q" -> "q" [] c = "R" -> "r" [] c = "S" -> "s" [] c = "T" -> "t"
          [] c = "U" -> "u" [] c = "V" -> "v" [] c = "W" -> "w" [] c = "X" -> "x"
          [] c = "Y" -> "y" [] c = "Z" -> "z"]

\* str.lower()
Lower(s) == [i \in 1 .. Len(s) |->
                IF s[i] \in DOMAIN UpperToLower THEN UpperToLower[s[i]] ELSE s[i]]

\* str.strip()
RECURSIVE LStrip(_)
LStrip(s) == IF s # <<>> /\ Head(s) \in Whitespace THEN LStrip(Tail(s)) ELSE s
RECURSIVE RStrip(_)
RStrip(s) == IF s # <<>> /\ s[Len(s)] \in Whitespace
             THEN RStrip(SubSeq(s, 1, Len(s) - 1)) ELSE s
Strip(s) == RStrip(LStrip(s))

\* "t in s" for strings
Contains(s, t) ==
    \E i \in 1 .. (Len(s) - Len(t) + 1) : SubSeq(s, i, i + Len(t) - 1) = t
\* the allow-listed domain substrings
Domains ==
    {<<"y", "o", "u", "t", "u", "b", "e", ".", "c", "o", "m">>,
     <<"y", "o", "u", "t", "u", ".", "b", "e">>,
     <<"f", "a", "c", "e", "b", "o", "o", "k", ".", "c", "o", "m">>,
     <<"f", "b", ".", "w", "a", "t", "c", "h">>,
     <<"i", "n", "s", "t", "a", "g", "r", "a", "m", ".", "c", "o", "m">>,
     <<"t", "w", "i", "t", "t", "e", "r", ".", "c", "o", "m">>,
     <<"t", "i", "k", "t", "o", "k", ".", "c", "o", "m">>,
     <<"v", "i", "m", "e", "o", ".", "c", "o", "m">>,
     <<"d", "a", "i", "l", "y", "m", "o", "t", "i", "o", "n", ".", "c", "o", "m">>}

\* any(domain in url.lower() for domain in [...])
DomainListed(url) == \E d \in Domains : Contains(Lower(url), d)
Url_empty == <<>>
Url_blank == <<" ", " ">>
Url_short == <<"h", "t", "t", "p", "s", ":", "/", "/", "y", "o", "u", "t", "u", ".", "b", "e", "/", "a">>
Url_upper == <<" ", "H", "T", "T", "P", "S", ":", "/", "/", "V", "I", "M", "E", "O", ".", "C", "O", "M", "/", "1", " ">>
Url_other == <<"h", "t", "t", "p", "s", ":", "/", "/", "e", "x", "a", "m", "p", "l", "e", ".", "o", "r", "g", "/", "v">>
Url_evil == <<"n", "o", "t", "t", "i", "k", "t", "o", "k", ".", "c", "o", "m", ".", "e", "v", "i", "l">>

\* texts the user may type or paste
UrlInputs == {Url_empty, Url_blank, Url_short, Url_upper, Url_other, Url_evil}
Codec_none == <<"n", "o", "n", "e">>
Codec_avc1 == <<"a", "v", "c", "1", ".", "6", "4", "0", "0", "2", "8">>
Codec_vp92 == <<"v", "p", "9", ".", "2">>
Codec_av01 == <<"A", "V", "0", "1", ".", "0", ".", "1", "2", "M">>
Codec_opus == <<"o", "p", "u", "s">>
Note_plain == <<"1", "0", "8", "0", "p">>
Note_hdr == <<"2", "1", "6", "0", "p", "6", "0", " ", "H", "D", "R">>
Note_dolby == <<"D", "o", "l", "b", "y", " ", "V", "i", "s", "i", "o", "n">>
Note_audio == <<"m", "e", "d", "i", "u", "m">>
Mark_vp92 == <<"v", "p", "9", ".", "2">>
Mark_hdr == <<"h", "d", "r">>
Mark_av01 == <<"a", "v", "0", "1">>
Mark_HDR == <<"H", "D", "R">>
Mark_Dolby == <<"D", "o", "l", "b", "y", " ", "V", "i", "s", "i", "o", "n">>

----------------------------------------------------------------------------
(* Pre-download info lookup: VideoDownloaderGUI.get_video_info *)

F_uhd   == [format_note |-> Note_plain, height |-> 3840, fps |-> 60,
            vcodec |-> Codec_vp92, acodec |-> Codec_none]
F_hd    == [format_note |-> Note_plain, height |-> 1080, fps |-> 30,
            vcodec |-> Codec_avc1, acodec |-> Codec_opus]
F_8k    == [format_note |-> Note_hdr, height |-> 4320, fps |-> 60,
            vcodec |-> Codec_av01, acodec |-> Codec_none]
F_dolby == [format_note |-> Note_dolby, height |-> 2160, fps |-> 24,
            vcodec |-> Codec_avc1, acodec |-> Codec_none]
F_sd    == [format_note |-> Note_plain, height |-> 720, fps |-> 30,
            vcodec |-> Codec_avc1, acodec |-> Codec_none]
F_audio == [format_note |-> Note_audio, height |-> 0, fps |-> 0,
            vcodec |-> Codec_none, acodec |-> Codec_opus]

\* what extract_info(url, download=False) may return
Info_uhd   == [title |-> "Clip A", extractor |-> "youtube", formats |-> <<F_audio, F_sd, F_uhd>>]
Info_hd    == [title |-> "Clip B", extractor |-> "vimeo", formats |-> <<F_hd>>]
Info_8k    == [title |-> "Clip C", extractor |-> "youtube", formats |-> <<F_8k, F_audio>>]
Info_dolby == [title |-> "Clip D", extractor |-> "vimeo", formats |-> <<F_dolby>>]
Info_audio == [title |-> "Clip E", extractor |-> "youtube", formats |-> <<F_audio>>]
Info_none  == [title |-> "Clip F", extractor |-> "youtube", formats |-> <<>>]

AllInfos == {Info_uhd, Info_hd, Info_8k, Info_dolby, Info_audio, Info_none}

\* str.title() of the extractor names above
Title(name) == IF name = "youtube" THEN "Youtube"
               ELSE IF name = "vimeo" THEN "Vimeo" ELSE name

\* the "first pass" loop over formats (lines 265-294)
RECURSIVE ScanFormats(_, _)
ScanFormats(formats, acc) ==
    IF formats = <<>> THEN acc
    ELSE LET f == Head(formats)
             video == f.vcodec # Codec_none
             audio == f.acodec # Codec_none
             hdr_codec == \E x \in {Mark_vp92, Mark_hdr, Mark_av01} :
                              Contains(Lower(f.vcodec), x)
         IN  ScanFormats(Tail(formats),
               [has_video |-> acc.has_video \/ video,
                has_audio |-> acc.has_audio \/ audio,
                is_hdr |-> acc.is_hdr \/ (video /\ hdr_codec),
                dynamic_range |->
                    IF video /\ Contains(f.format_note, Mark_HDR) THEN "HDR"
                    ELSE IF video /\ Contains(f.format_note, Mark_Dolby)
                    THEN "Dolby Vision"
                    ELSE acc.dynamic_range,
                max_height |-> IF video /\ f.height > acc.max_height
                               THEN f.height ELSE acc.max_height,
                max_fps |-> IF video /\ f.fps > acc.max_fps
                            THEN f.fps ELSE acc.max_fps,
                lines |-> Append(acc.lines, <<"Format: ", f>>)])

Scan(formats) ==
    ScanFormats(formats,
        [has_video |-> FALSE, has_audio |-> FALSE, is_hdr |-> FALSE,
         dynamic_range |-> "", max_height |-> 0, max_fps |-> 0, lines |-> <<>>])


\* the resolution word of the label (lines 300-312, and again 325-335)
ResolutionLabel(max_height) ==
    IF max_height >= 15000 THEN "16K"
    ELSE IF max_height >= 8000 THEN "8K"
    ELSE IF max_height >= 4000 THEN "4K"
    ELSE IF max_height >= 2000 THEN "2K"
    ELSE IF max_height >= 1080 THEN ToString(max_height) \o "p"
    ELSE ToString(max_height) \o "p"

\* quality_label followed by fps_text (lines 314-321)
QualityLabel(s) ==
    ResolutionLabel(s.max_height)
    \o (IF s.dynamic_range # "" THEN " " \o s.dynamic_range
        ELSE IF s.is_hdr THEN " HDR" ELSE "")
    \o " " \o ToString(s.max_fps) \o "FPS"

\* format_text (lines 297-348), without the pictographs
FormatText(s) ==
    IF s.has_video /\ s.has_audio THEN "Video+Audio (" \o QualityLabel(s) \o ")"
    ELSE IF s.has_video THEN "Video Only (" \o QualityLabel(s) \o ")"
    ELSE IF s.has_audio THEN "Audio Only"
    ELSE "Unknown Format"

\* size_text (lines 353-370): the estimate in tenths of a MB, rounded as
\* "{:.1f}" rounds, and the suffix
SizeText(s) ==
    IF s.has_video
    THEN LET fps_num == IF s.max_fps > 30 THEN s.max_fps ELSE 30
             hdr_num == IF s.is_hdr \/ s.dynamic_range # "" THEN 3 ELSE 2
             \* max_height * 0.5 * (fps_num / 30) * (hdr_num / 2), times 10
             num == s.max_height * 5 * fps_num * hdr_num
             den == 30 * 2
             tenths == (2 * num + den) \div (2 * den)
                       + (IF s.has_audio THEN 100 ELSE 0)
         IN  <<"~MB/10", tenths,
               IF s.has_audio THEN " (Video+Audio)" ELSE " (Video Only)">>
    ELSE IF s.has_audio THEN <<"~10-20 MB (Audio Only)", 0, "">>
    ELSE <<"Size unknown", 0, "">>

----------------------------------------------------------------------------
(* GUI session controller: VideoDownloaderGUI *)

\* downloads started per window in one run of the model
MaxDownloads == 2

\* progress-hook calls the library makes per download
MaxHooks == 2

\* self.output_var (browse_output is not modelled: the directory stays the default)
output_var == "~/Downloads"

gui_vars == <<url_entry, title_var, size_var, format_var, platform_var, video_info,
              download_button, cancel_button, play_button, progress_var,
              status_var, log_text, is_downloading, ydl, last_downloaded_file,
              download_thread, threads, timers, dialogs, callback_errors,
              cancel_tick, out_dir_exists, probe_results>>

vars == <<cli_vars, gui_vars>>

info_vars == <<title_var, size_var, format_var, platform_var, video_info>>

\* what the library's progress hook may be handed
HookInputs ==
    {[status |-> "downloading", has_total |-> TRUE, total_bytes |-> 4,
      downloaded_bytes |-> 2, speed |-> 2097152, eta |-> 3],
     [status |-> "downloading", has_total |-> TRUE, total_bytes |-> 4,
      downloaded_bytes |-> 4, speed |-> 0, eta |-> 0],
     [status |-> "downloading", has_total |-> FALSE, total_bytes |-> 0,
      downloaded_bytes |-> 1, speed |-> 2097152, eta |-> 3],
     [status |-> "finished", has_total |-> FALSE, total_bytes |-> 0,
      downloaded_bytes |-> 0, speed |-> 0, eta |-> 0]}

\* the window right after VideoDownloaderGUI.__init__
GuiConstructed ==
    /\ url_entry = <<>>
    /\ title_var = "Paste a video URL to see details"
    /\ size_var = <<"", 0, "">>
    /\ format_var = ""
    /\ platform_var = ""
    /\ video_info = <<>>
    /\ download_button = "normal"
    /\ cancel_button = "disabled"
    /\ play_button = "disabled"
    /\ progress_var = 0
    /\ status_var = <<"Ready to download">>
    /\ log_text = <<>>
    /\ is_downloading = FALSE
    /\ ydl = "None"
    /\ last_downloaded_file = <<>>
    /\ download_thread = 0
    /\ threads = <<>>
    /\ timers = <<>>
    /\ dialogs = <<>>
    /\ callback_errors = {}
    /\ cancel_tick = FALSE

\* no window exists while the command line program runs
GuiNotStarted ==
    /\ GuiConstructed
    /\ out_dir_exists = FALSE
    /\ probe_results = {}

\* the command line program before main() acts (it is another process)
CliNotStarted ==
    /\ args = [n |-> 1, output |-> "downloads", quality |-> "best",
               audio_only |-> FALSE, list_formats |-> FALSE, threads |-> 4,
               concurrent |-> FALSE, limit_rate |-> "None"]
    /\ pc = "main"
    /\ idx = 1
    /\ task = [i \in 1 .. 1 |-> "none"]
    /\ yielded = {}
    /\ pending = 0
    /\ exit_code = -1
    /\ listing = "none"
    /\ dir_exists = FALSE
    /\ handed = {}

----------------------------------------------------------------------------
(* The Tk timer queue: root.after(ms, callback) *)

\* the callback is put in front of the queue
After10_Mut(q, cb) == <<cb>> \o q

\* root.after(10, cb): due later than everything already queued
After10(q, cb) == Append(q, cb)

\* index of the last queued after(0) callback, 0 if none
LastZero(q) ==
    IF \E i \in 1 .. Len(q) : q[i].ms = 0
    THEN CHOOSE i \in 1 .. Len(q) : q[i].ms = 0 /\ \A j \in (i + 1) .. Len(q) : q[j].ms # 0
    ELSE 0

\* root.after(0, cb): due now, so behind every after(0) callback and every
\* after(10) callback that is already due, and before the after(10)
\* callbacks that are not; the clock decides how many of those there are
After0Places(q) == LastZero(q) .. Len(q)
After0(q, cb, p) == SubSeq(q, 1, p) \o <<cb>> \o SubSeq(q, p + 1, Len(q))

\* the widgets and reports a deferred callback can touch
UiNow ==
    [download_button |-> download_button, cancel_button |-> cancel_button,
     play_button |-> play_button, progress_var |-> progress_var,
     status_var |-> status_var, log_text |-> log_text, dialogs |-> dialogs,
     callback_errors |-> callback_errors]

\* one deferred callback runs on the UI thread. The two lambdas of the
\* except block read the worker's variable e when they run; Python unbinds e
\* when the except block ends, and the lambda then raises NameError, which
\* Tk reports and drops.
ApplyCallback(u, cb) ==
    CASE cb.op = "log_message" -> [u EXCEPT !.log_text = Append(@, cb.arg)]
      [] cb.op = "update_progress" -> [u EXCEPT !.progress_var = cb.arg]
      [] cb.op = "update_status" -> [u EXCEPT !.status_var = cb.arg]
      [] cb.op = "play_button.config" -> [u EXCEPT !.play_button = cb.arg]
      [] cb.op = "download_button.config" -> [u EXCEPT !.download_button = cb.arg]
      [] cb.op = "cancel_button.config" -> [u EXCEPT !.cancel_button = cb.arg]
      [] cb.op = "showerror" ->
            IF threads[cb.t].e = "unbound"
            THEN [u EXCEPT !.callback_errors = @ \cup {"NameError"}]
            ELSE [u EXCEPT !.dialogs =
                      Append(@, <<"error", "Error", "Download failed: " \o threads[cb.t].e>>)]
      [] cb.op = "log_error" ->
            IF threads[cb.t].e = "unbound"
            THEN [u EXCEPT !.callback_errors = @ \cup {"NameError"}]
            ELSE [u EXCEPT !.log_text = Append(@, <<"Error: ", threads[cb.t].e>>)]

RECURSIVE RunCallbacks(_, _)
RunCallbacks(u, cbs) ==
    IF cbs = <<>> THEN u ELSE RunCallbacks(ApplyCallback(u, Head(cbs)), Tail(cbs))

\* the Tk timer event: every callback that is due runs, in queue order. All
\* after(0) callbacks are due; k says how far the clock has come beyond them.
run_timers(k) ==
    /\ k \in 1 .. Len(timers)
    /\ k >= LastZero(timers)
    /\ LET u == RunCallbacks(UiNow, SubSeq(timers, 1, k))
       IN  /\ download_button' = u.download_button
           /\ cancel_button' = u.cancel_button
           /\ play_button' = u.play_button
           /\ progress_var' = u.progress_var
           /\ status_var' = u.status_var
           /\ log_text' = u.log_text
           /\ dialogs' = u.dialogs
           /\ callback_errors' = u.callback_errors
    /\ timers' = SubSeq(timers, k + 1, Len(timers))
    /\ UNCHANGED <<url_entry, info_vars, is_downloading, ydl, last_downloaded_file,
                   download_thread, threads, cancel_tick, out_dir_exists, probe_results>>
    /\ UNCHANGED cli_vars

\* the user closes the topmost message box
dismiss_dialog ==
    /\ dialogs # <<>>
    /\ dialogs' = SubSeq(dialogs, 1, Len(dialogs) - 1)
    /\ UNCHANGED <<url_entry, info_vars, download_button, cancel_button, play_button,
                   progress_var, status_var, log_text, is_downloading, ydl,
                   last_downloaded_file, download_thread, threads, timers,
                   callback_errors, cancel_tick, out_dir_exists, probe_results>>
    /\ UNCHANGED cli_vars

----------------------------------------------------------------------------
(* Pure helpers of youtube_downloader.py *)

\* dict.update(): keys of e override keys of d
DictUpdate(d, e) ==
    [k \in (DOMAIN d) \cup (DOMAIN e) |-> IF k \in DOMAIN e THEN e[k] ELSE d[k]]

\* a copy-paste slip: the 1440p branch keeps the 1080 cap
get_quality_options_Mut(quality) ==
    LET format_str ==
            IF quality = "1080p"
            THEN "bestvideo[height<=1080]+bestaudio/best[height<=1080]"
            ELSE IF quality = "1440p"
            THEN "bestvideo[height<=1080]+bestaudio/best[height<=1080]"
            ELSE IF quality = "2160p"
            THEN "bestvideo[height<=2160]+bestaudio/best[height<=2160]"
            ELSE "bestvideo+bestaudio/best"
    IN  [format |-> format_str, merge_output_format |-> "mp4"]

get_quality_options(quality) ==
    LET format_str ==
            IF quality = "1080p"
            THEN "bestvideo[height<=1080]+bestaudio/best[height<=1080]"
            ELSE IF quality = "1440p"
            THEN "bestvideo[height<=1440]+bestaudio/best[height<=1440]"
            ELSE IF quality = "2160p"
            THEN "bestvideo[height<=2160]+bestaudio/best[height<=2160]"
            ELSE "bestvideo+bestaudio/best"
    IN  [format |-> format_str, merge_output_format |-> "mp4"]

\* the ydl_opts dictionary download_video builds before calling the library
ydl_opts(output_dir, quality, audio_only, n_threads, limit_rate) ==
    LET base == [outtmpl |-> output_dir \o "/%(title)s.%(ext)s",
                 ignoreerrors |-> TRUE,
                 noplaylist |-> TRUE,
                 quiet |-> FALSE,
                 no_warnings |-> FALSE,
                 progress |-> TRUE,
                 concurrent_fragment_downloads |-> n_threads,
                 retries |-> 10,
                 fragment_retries |-> 10,
                 skip_unavailable_fragments |-> TRUE,
                 buffersize |-> 1024 * 1024 * 16,
                 http_chunk_size |-> 1024 * 1024 * 10]
        rated == IF limit_rate # "None"
                 THEN DictUpdate(base, [ratelimit |-> limit_rate])
                 ELSE base
    IN  IF audio_only
        THEN DictUpdate(rated,
                 [format |-> "bestaudio/best",
                  postprocessors |->
                      <<[key |-> "FFmpegExtractAudio",
                         preferredcodec |-> "mp3",
                         preferredquality |-> "192"]>>])
        ELSE DictUpdate(rated, get_quality_options(quality))

\* "except Exception" also catches everything (a bare except)
IsException_Mut(e) == e # "None"

\* "except Exception": SystemExit derives from BaseException only
IsException(e) == e \notin {"None", "SystemExit", "KeyboardInterrupt", "GeneratorExit"}

----------------------------------------------------------------------------
(* State of the command line program *)

Urls == 1 .. args.n

\* urls = [u.strip() for u in args.url.split(',')] has n >= 2 entries exactly
\* when ',' occurs in args.url
HasComma == args.n >= 2

Running == {i \in Urls : task[i] = "running"}
Done    == {i \in Urls : task[i] \in {"ok", "failed"}}

\* the exception stored in future i (download_video ends in sys.exit(1))
FutureException(i) == IF task[i] = "failed" THEN "SystemExit" ELSE "None"

\* no cap at all on the pool
PoolSize_Mut == args.n

PoolSize == Min(args.n, MaxWorkers)

\* leaving the "with" block without waiting for the workers
AllTasksDone_Mut == TRUE

\* ThreadPoolExecutor.__exit__ -> shutdown(wait=True): every submitted task
\* has run to its end before the "with" block is left
AllTasksDone == \A i \in Urls : task[i] \in {"ok", "failed"}

InitCLI ==
    /\ args \in [n : 1 .. MaxUrls,
                 output : {"downloads"},
                 quality : {"1080p", "1440p", "2160p", "best"},
                 audio_only : BOOLEAN,
                 list_formats : BOOLEAN,
                 threads : {4},
                 concurrent : BOOLEAN,
                 limit_rate : {"None", "50M"}]
    /\ pc = "main"
    /\ idx = 1
    /\ task = [i \in 1 .. args.n |-> "none"]
    /\ yielded = {}
    /\ pending = 0
    /\ exit_code = -1
    /\ listing = "none"
    /\ dir_exists \in BOOLEAN
    /\ handed = {}
    /\ GuiNotStarted

\* download_video without lines 85-86
EnterDownload_Mut(i) ==
    /\ task' = [task EXCEPT ![i] = "running"]
    /\ UNCHANGED dir_exists
    /\ handed' = handed \cup {ydl_opts(args.output, args.quality, args.audio_only,
                                       args.threads, args.limit_rate)}

\* download_video up to the library call: makedirs, build ydl_opts,
\* yt_dlp.YoutubeDL(ydl_opts).download([url]) entered
EnterDownload(i) ==
    /\ task' = [task EXCEPT ![i] = "running"]
    /\ dir_exists' = TRUE
    /\ handed' = handed \cup {ydl_opts(args.output, args.quality, args.audio_only,
                                       args.threads, args.limit_rate)}

\* main(): dispatch on ',' in args.url and on --list-formats
main ==
    /\ pc = "main"
    /\ IF args.list_formats
       THEN /\ pc' = "list"
            /\ UNCHANGED dir_exists
       ELSE IF HasComma
       THEN \* download_multiple_videos: makedirs, then branch on concurrent
            /\ dir_exists' = TRUE
            /\ pc' = IF args.concurrent THEN "submit" ELSE "seq"
       ELSE /\ pc' = "single"
            /\ UNCHANGED dir_exists
    /\ UNCHANGED <<args, idx, task, yielded, pending, exit_code, listing, handed>>
    /\ UNCHANGED gui_vars

\* list_available_formats: the library call starts
list_call ==
    /\ pc = "list"
    /\ listing = "none"
    /\ listing' = "running"
    /\ UNCHANGED <<args, pc, idx, task, yielded, pending, exit_code, dir_exists, handed>>
    /\ UNCHANGED gui_vars

\* list_available_formats: the library returns, main returns
list_return ==
    /\ pc = "list"
    /\ listing = "running"
    /\ listing' = "ok"
    /\ pc' = "exited"
    /\ exit_code' = 0
    /\ UNCHANGED <<args, idx, task, yielded, pending, dir_exists, handed>>
    /\ UNCHANGED gui_vars

\* list_available_formats: the library raises, except -> sys.exit(1)
list_raise ==
    /\ pc = "list"
    /\ listing = "running"
    /\ listing' = "failed"
    /\ pc' = "exited"
    /\ exit_code' = 1
    /\ UNCHANGED <<args, idx, task, yielded, pending, dir_exists, handed>>
    /\ UNCHANGED gui_vars

\* main calls download_video for the single URL, or the sequential loop of
\* download_multiple_videos calls it for the next URL
seq_call ==
    /\ pc \in {"single", "seq"}
    /\ idx <= args.n
    /\ task[idx] = "none"
    /\ EnterDownload(idx)
    /\ UNCHANGED <<args, pc, idx, yielded, pending, exit_code, listing>>
    /\ UNCHANGED gui_vars

\* the library returns inside the main thread's download_video; after the
\* last URL main returns and the process ends with status 0
seq_return ==
    /\ pc \in {"single", "seq"}
    /\ idx <= args.n
    /\ task[idx] = "running"
    /\ task' = [task EXCEPT ![idx] = "ok"]
    /\ idx' = idx + 1
    /\ IF idx = args.n
       THEN pc' = "exited" /\ exit_code' = 0
       ELSE UNCHANGED <<pc, exit_code>>
    /\ UNCHANGED <<args, yielded, pending, listing, dir_exists, handed>>
    /\ UNCHANGED gui_vars

\* the library raises inside the main thread's download_video:
\* except Exception -> sys.exit(1); nothing on the way up catches SystemExit
seq_raise ==
    /\ pc \in {"single", "seq"}
    /\ idx <= args.n
    /\ task[idx] = "running"
    /\ task' = [task EXCEPT ![idx] = "failed"]
    /\ pc' = "exited"
    /\ exit_code' = 1
    /\ UNCHANGED <<args, idx, yielded, pending, listing, dir_exists, handed>>
    /\ UNCHANGED gui_vars

\* executor.submit(download_video, url, ...) for the next URL
submit ==
    /\ pc = "submit"
    /\ idx <= args.n
    /\ task' = [task EXCEPT ![idx] = "queued"]
    /\ idx' = idx + 1
    /\ pc' = IF idx = args.n THEN "collect" ELSE "submit"
    /\ UNCHANGED <<args, yielded, pending, exit_code, listing, dir_exists, handed>>
    /\ UNCHANGED gui_vars

\* a pool thread takes the oldest queued work item and enters download_video
worker_take(i) ==
    /\ task[i] = "queued"
    /\ \A j \in Urls : task[j] = "queued" => i <= j
    /\ Cardinality(Running) < PoolSize
    /\ EnterDownload(i)
    /\ UNCHANGED <<args, pc, idx, yielded, pending, exit_code, listing>>
    /\ UNCHANGED gui_vars

\* the library returns in a pool thread: the future holds a result
worker_return(i) ==
    /\ args.concurrent
    /\ pc \in {"submit", "collect", "shutdown"}
    /\ task[i] = "running"
    /\ task' = [task EXCEPT ![i] = "ok"]
    /\ UNCHANGED <<args, pc, idx, yielded, pending, exit_code, listing, dir_exists, handed>>
    /\ UNCHANGED gui_vars

\* the library raises in a pool thread: sys.exit(1) there, the pool stores
\* the SystemExit in the future and the thread goes on to the next item
worker_raise(i) ==
    /\ args.concurrent
    /\ pc \in {"submit", "collect", "shutdown"}
    /\ task[i] = "running"
    /\ task' = [task EXCEPT ![i] = "failed"]
    /\ UNCHANGED <<args, pc, idx, yielded, pending, exit_code, listing, dir_exists, handed>>
    /\ UNCHANGED gui_vars

\* one iteration of "for future in as_completed(futures)": future.result()
\* returns, or raises what the future holds; "except Exception" lets a
\* SystemExit through, which leaves the loop
collect(i) ==
    /\ pc = "collect"
    /\ i \in Done \ yielded
    /\ yielded' = yielded \cup {i}
    /\ IF FutureException(i) = "None" \/ IsException(FutureException(i))
       THEN UNCHANGED <<pc, pending>>
       ELSE pc' = "shutdown" /\ pending' = 1
    /\ UNCHANGED <<args, idx, task, exit_code, listing, dir_exists, handed>>
    /\ UNCHANGED gui_vars

\* as_completed is exhausted: the "with" block is left normally
collect_done ==
    /\ pc = "collect"
    /\ yielded = Urls
    /\ pc' = "shutdown"
    /\ UNCHANGED <<args, idx, task, yielded, pending, exit_code, listing, dir_exists, handed>>
    /\ UNCHANGED gui_vars

\* the "with" block's exit waits for the pool, then main returns or the
\* SystemExit reaches the interpreter
shutdown ==
    /\ pc = "shutdown"
    /\ AllTasksDone
    /\ pc' = "exited"
    /\ exit_code' = pending
    /\ UNCHANGED <<args, idx, task, yielded, pending, listing, dir_exists, handed>>
    /\ UNCHANGED gui_vars

NextCLI ==
    \/ main
    \/ list_call
    \/ list_return
    \/ list_raise
    \/ seq_call
    \/ seq_return
    \/ seq_raise
    \/ submit
    \/ \E i \in Urls : worker_take(i)
    \/ \E i \in Urls : worker_return(i)
    \/ \E i \in Urls : worker_raise(i)
    \/ \E i \in Urls : collect(i)
    \/ collect_done
    \/ shutdown

SpecCLI == InitCLI /\ [][NextCLI]_vars

----------------------------------------------------------------------------
(* UI-thread handlers *)

\* a worker thread has not yet left download_video
InFlight == \E t \in 1 .. Len(threads) : threads[t].pc # "done"

\* get_video_info(url), try branch: the probe returns info
InfoShown(info) ==
    LET s == Scan(info.formats)
    IN  /\ video_info' = <<info>>
        /\ title_var' = info.title
        /\ platform_var' = Title(info.extractor)
        /\ format_var' = FormatText(s)
        /\ size_var' = SizeText(s)
        /\ log_text' = <<<<"Available formats:">>>> \o s.lines

\* get_video_info(url), except branch: the probe raises
InfoFailed ==
    /\ title_var' = "Could not fetch video information"
    /\ size_var' = <<"", 0, "">>
    /\ format_var' = ""
    /\ platform_var' = ""
    /\ log_text' = <<<<"Error: ", "ExtractorError">>>>
    /\ UNCHANGED video_info

\* get_video_info runs on the calling (UI) thread and blocks it for the probe
get_video_info(url) ==
    \/ \E info \in probe_results : InfoShown(info)
    \/ InfoFailed

\* <KeyRelease> in the URL entry: the text is now u, then on_url_change
on_url_change(u) ==
    /\ dialogs = <<>>
    /\ url_entry' = u
    /\ LET url == Strip(u)
       IN  IF url # <<>> /\ DomainListed(url)
           THEN get_video_info(url)
           ELSE UNCHANGED <<info_vars, log_text>>
    /\ UNCHANGED <<download_button, cancel_button, play_button, progress_var,
                   status_var, is_downloading, ydl, last_downloaded_file,
                   download_thread, threads, timers, dialogs, callback_errors,
                   cancel_tick, out_dir_exists, probe_results>>
    /\ UNCHANGED cli_vars

\* the Paste button, with clipboard text clip
paste_url(clip) ==
    /\ dialogs = <<>>
    /\ IF DomainListed(clip)
       THEN /\ url_entry' = clip
            /\ get_video_info(clip)
            /\ UNCHANGED dialogs
       ELSE /\ dialogs' = Append(dialogs,
                   <<"warning", "Invalid URL", "Please paste a supported video URL">>)
            /\ UNCHANGED <<url_entry, info_vars, log_text>>
    /\ UNCHANGED <<download_button, cancel_button, play_button, progress_var,
                   status_var, is_downloading, ydl, last_downloaded_file,
                   download_thread, threads, timers, callback_errors,
                   cancel_tick, out_dir_exists, probe_results>>
    /\ UNCHANGED cli_vars

\* the Paste button when clipboard_get raises
paste_no_clipboard ==
    /\ dialogs = <<>>
    /\ dialogs' = Append(dialogs, <<"warning", "Error", "Could not access clipboard">>)
    /\ UNCHANGED <<url_entry, info_vars, log_text, download_button, cancel_button,
                   play_button, progress_var, status_var, is_downloading, ydl,
                   last_downloaded_file, download_thread, threads, timers,
                   callback_errors, cancel_tick, out_dir_exists, probe_results>>
    /\ UNCHANGED cli_vars

\* the check of start_download lets every non-empty text through
UrlSupported_Mut(url) == TRUE

\* the allow-list test of start_download (lines 449-452)
UrlSupported(url) == DomainListed(url)

\* start_download enables the Play button instead of disabling it
PlayStateOnStart_Mut == "normal"

\* self.play_button.config(state=tk.DISABLED) in start_download (line 459)
PlayStateOnStart == "disabled"

\* a click is taken whatever the state of the button
StartEnabled_Mut == TRUE

\* a ttk.Button runs its command (line 52) only while the button is enabled
StartEnabled == download_button = "normal"

\* the Download button's command
start_download ==
    /\ dialogs = <<>>
    /\ StartEnabled
    /\ Len(threads) < MaxDownloads
    /\ LET url == Strip(url_entry)
       IN  IF url = <<>>
           THEN /\ dialogs' = Append(dialogs,
                       <<"warning", "Warning", "Please enter a video URL">>)
                /\ UNCHANGED <<download_button, cancel_button, play_button,
                               progress_var, status_var, log_text, is_downloading,
                               download_thread, threads>>
           ELSE IF ~UrlSupported(url)
           THEN /\ dialogs' = Append(dialogs,
                       <<"warning", "Warning", "Please enter a supported video URL">>)
                /\ UNCHANGED <<download_button, cancel_button, play_button,
                               progress_var, status_var, log_text, is_downloading,
                               download_thread, threads>>
           ELSE /\ download_button' = "disabled"
                /\ cancel_button' = "normal"
                /\ play_button' = PlayStateOnStart
                /\ progress_var' = 0
                /\ status_var' = <<"Starting download...">>
                /\ log_text' = <<>>
                /\ is_downloading' = TRUE
                /\ threads' = Append(threads,
                       [pc |-> "start", url |-> url, output_dir |-> output_var,
                        hooks |-> 0, e |-> "unset", result |-> "none"])
                /\ download_thread' = Len(threads) + 1
                /\ UNCHANGED dialogs
    /\ UNCHANGED <<url_entry, info_vars, ydl, last_downloaded_file, timers,
                   callback_errors, cancel_tick, out_dir_exists, probe_results>>
    /\ UNCHANGED cli_vars

\* the guard is dropped
CancelGuard_Mut == TRUE

\* "if self.is_downloading and self.ydl" (line 476)
CancelGuard == is_downloading /\ ydl # "None"

\* cancel_download, run by the Cancel button's command or called directly.
\* self.ydl is assigned once, to None in __init__ (line 160); a call of
\* interrupt() on None raises AttributeError before anything is changed.
cancel_download ==
    /\ cancel_tick' = ~cancel_tick
    /\ IF CancelGuard
       THEN IF ydl = "None"
            THEN /\ callback_errors' = callback_errors \cup {"AttributeError"}
                 /\ UNCHANGED <<status_var, log_text, download_button,
                                cancel_button, is_downloading>>
            ELSE /\ status_var' = <<"Download cancelled">>
                 /\ log_text' = Append(log_text, <<"Download cancelled by user">>)
                 /\ download_button' = "normal"
                 /\ cancel_button' = "disabled"
                 /\ is_downloading' = FALSE
                 /\ UNCHANGED callback_errors
       ELSE UNCHANGED <<status_var, log_text, download_button, cancel_button,
                        is_downloading, callback_errors>>
    /\ UNCHANGED <<url_entry, info_vars, play_button, progress_var, ydl,
                   last_downloaded_file, download_thread, threads, timers, dialogs,
                   out_dir_exists, probe_results>>
    /\ UNCHANGED cli_vars

----------------------------------------------------------------------------
(* The worker thread: VideoDownloaderGUI.download_video *)

Workers == 1 .. Len(threads)

Cb(ms, t, op, arg) == [ms |-> ms, t |-> t, op |-> op, arg |-> arg]

worker_unchanged ==
    /\ UNCHANGED <<url_entry, info_vars, download_button, cancel_button, play_button,
                   progress_var, status_var, log_text, ydl, download_thread, dialogs,
                   callback_errors, cancel_tick, probe_results>>
    /\ UNCHANGED cli_vars

\* lines 400-424: the two "starting" log lines are scheduled, the output
\* directory is made if missing, ydl_opts is built, the library session (a
\* local variable ydl) is opened and extract_info(url, download=True) entered
w_begin(t) ==
    /\ threads[t].pc = "start"
    /\ timers' = After10(After10(timers,
                     Cb(10, t, "log_message", <<"Starting download: ", threads[t].url>>)),
                     Cb(10, t, "log_message", <<"Output directory: ", threads[t].output_dir>>))
    /\ out_dir_exists' = TRUE
    /\ threads' = [threads EXCEPT ![t].pc = "lib"]
    /\ UNCHANGED <<is_downloading, last_downloaded_file>>
    /\ worker_unchanged

\* download_progress_hook(d), called by the library on the worker thread
w_hook(t, d) ==
    /\ threads[t].pc = "lib"
    /\ threads[t].hooks < MaxHooks
    /\ threads' = [threads EXCEPT ![t].hooks = @ + 1]
    /\ timers' =
         IF d.status = "downloading"
         THEN IF d.has_total /\ d.total_bytes > 0
              THEN LET percent == (d.downloaded_bytes * 100) \div d.total_bytes
                       q1 == After10(timers, Cb(10, t, "update_progress", percent))
                   IN  IF d.speed # 0
                       THEN After10(q1, Cb(10, t, "update_status",
                                <<"Downloading: ", percent,
                                  d.speed \div (1024 * 1024), d.eta>>))
                       ELSE q1
              ELSE timers
         ELSE IF d.status = "finished"
         THEN After10(After10(timers,
                  Cb(10, t, "update_status", <<"Download finished, now processing...">>)),
                  Cb(10, t, "log_message", <<"Download finished, now processing...">>))
         ELSE timers
    /\ UNCHANGED <<is_downloading, last_downloaded_file, out_dir_exists>>
    /\ worker_unchanged

\* lines 424-432: extract_info returns, prepare_filename gives the path, and
\* the three completion callbacks are scheduled with after(0)
w_lib_return(t, p) ==
    /\ threads[t].pc = "lib"
    /\ p \in After0Places(timers)
    /\ last_downloaded_file' = <<threads[t].output_dir, threads[t].url>>
    /\ timers' = SubSeq(timers, 1, p)
                  \o <<Cb(0, t, "play_button.config", "normal"),
                       Cb(0, t, "update_status", <<"Download completed successfully!">>),
                       Cb(0, t, "log_message", <<"Download completed successfully!">>)>>
                  \o SubSeq(timers, p + 1, Len(timers))
    /\ threads' = [threads EXCEPT ![t].pc = "fin1", ![t].result = "ok", ![t].hooks = 0]
    /\ UNCHANGED <<is_downloading, out_dir_exists>>
    /\ worker_unchanged

\* line 434: the library call raises; e is bound for the except block
w_lib_raise(t) ==
    /\ threads[t].pc = "lib"
    /\ threads' = [threads EXCEPT ![t].pc = "ex1", ![t].result = "failed",
                                  ![t].e = "DownloadError", ![t].hooks = 0]
    /\ UNCHANGED <<is_downloading, last_downloaded_file, timers, out_dir_exists>>
    /\ worker_unchanged

\* one root.after(0, ...) call of the worker: lines 435, 436 in the except
\* block, 439, 440 in the finally block
w_after0(t, p) ==
    /\ threads[t].pc \in {"ex1", "ex2", "fin2", "fin3"}
    /\ p \in After0Places(timers)
    /\ LET at == threads[t].pc
           cb == CASE at = "ex1" -> Cb(0, t, "showerror", "e")
                   [] at = "ex2" -> Cb(0, t, "log_error", "e")
                   [] at = "fin2" -> Cb(0, t, "download_button.config", "normal")
                   [] at = "fin3" -> Cb(0, t, "cancel_button.config", "disabled")
           to == CASE at = "ex1" -> "ex2" [] at = "ex2" -> "ex3"
                   [] at = "fin2" -> "fin3" [] at = "fin3" -> "done"
       IN  /\ timers' = After0(timers, cb, p)
           /\ threads' = [threads EXCEPT ![t].pc = to]
    /\ UNCHANGED <<is_downloading, last_downloaded_file, out_dir_exists>>
    /\ worker_unchanged

\* the try statement is left for the finally block: after an exception
\* Python unbinds e at the end of the except block; then line 438,
\* self.is_downloading = False
w_finally(t) ==
    /\ threads[t].pc \in {"ex3", "fin1"}
    /\ is_downloading' = FALSE
    /\ threads' = [threads EXCEPT ![t].pc = "fin2",
                                  ![t].e = IF threads[t].pc = "ex3" THEN "unbound" ELSE @]
    /\ UNCHANGED <<last_downloaded_file, timers, out_dir_exists>>
    /\ worker_unchanged

----------------------------------------------------------------------------
(* Specifications of the GUI *)

\* the metadata the library can return in a run of the session model, and
\* the texts the user enters in it
SessionInfos == {Info_hd}
SessionUrls == {Url_upper, Url_other}

InitGUI ==
    /\ GuiConstructed
    /\ out_dir_exists = FALSE
    /\ probe_results = SessionInfos
    /\ CliNotStarted

\* the user fills in the URL field before pressing Download, and one download
\* is started in the window
NextGUI ==
    \/ download_thread = 0 /\ \E u \in SessionUrls : on_url_change(u)
    \/ download_thread = 0 /\ \E clip \in SessionUrls : paste_url(clip)
    \/ download_thread = 0 /\ paste_no_clipboard
    \/ threads = <<>> /\ start_download
    \/ cancel_download
    \/ dismiss_dialog
    \/ \E k \in 1 .. Len(timers) : run_timers(k)
    \/ \E t \in Workers : w_begin(t)
    \/ \E t \in Workers : \E d \in HookInputs : w_hook(t, d)
    \/ \E t \in Workers : \E p \in 0 .. Len(timers) : w_lib_return(t, p)
    \/ \E t \in Workers : w_lib_raise(t)
    \/ \E t \in Workers : \E p \in 0 .. Len(timers) : w_after0(t, p)
    \/ \E t \in Workers : w_finally(t)

SpecGUI == InitGUI /\ [][NextGUI]_vars

\* root.mainloop() (line 488) keeps serving the timer queue
TimerTick == \E k \in 1 .. Len(timers) : run_timers(k)

\* the session of one download as the liveness claims follow it: the URL is
\* typed, and the library reports progress at most once
NextRun ==
    \/ download_thread = 0 /\ \E u \in SessionUrls : on_url_change(u)
    \/ threads = <<>> /\ start_download
    \/ cancel_download
    \/ dismiss_dialog
    \/ TimerTick
    \/ \E t \in Workers : w_begin(t)
    \/ \E t \in Workers : \E d \in HookInputs : threads[t].hooks = 0 /\ w_hook(t, d)
    \/ \E t \in Workers : \E p \in 0 .. Len(timers) : w_lib_return(t, p)
    \/ \E t \in Workers : w_lib_raise(t)
    \/ \E t \in Workers : \E p \in 0 .. Len(timers) : w_after0(t, p)
    \/ \E t \in Workers : w_finally(t)

SpecGUIFair == InitGUI /\ [][NextRun]_vars /\ WF_vars(TimerTick)

\* two downloads in one window, one after the other: the URL is typed once,
\* and the library reports no progress
NextTwo ==
    \/ threads = <<>> /\ on_url_change(Url_upper)
    \/ start_download
    \/ cancel_download
    \/ dismiss_dialog
    \/ TimerTick
    \/ \E t \in Workers : w_begin(t)
    \/ \E t \in Workers : \E p \in 0 .. Len(timers) : w_lib_return(t, p)
    \/ \E t \in Workers : w_lib_raise(t)
    \/ \E t \in Workers : \E p \in 0 .. Len(timers) : w_after0(t, p)
    \/ \E t \in Workers : w_finally(t)

SpecGUI2 == InitGUI /\ [][NextTwo]_vars

\* a run of either program: the command line program, for which no window
\* exists, or the window with the metadata answers of its session
CliRun == GuiNotStarted
GuiRun == CliNotStarted /\ probe_results # {}

InitPrograms == InitCLI \/ InitGUI

NextPrograms ==
    \/ CliRun /\ main
    \/ CliRun /\ list_call
    \/ CliRun /\ list_return
    \/ CliRun /\ list_raise
    \/ CliRun /\ seq_call
    \/ CliRun /\ seq_return
    \/ CliRun /\ seq_raise
    \/ CliRun /\ submit
    \/ CliRun /\ \E i \in Urls : worker_take(i)
    \/ CliRun /\ \E i \in Urls : worker_return(i)
    \/ CliRun /\ \E i \in Urls : worker_raise(i)
    \/ CliRun /\ \E i \in Urls : collect(i)
    \/ CliRun /\ collect_done
    \/ CliRun /\ shutdown
    \/ GuiRun /\ download_thread = 0 /\ \E u \in SessionUrls : on_url_change(u)
    \/ GuiRun /\ threads = <<>> /\ start_download
    \/ GuiRun /\ cancel_download
    \/ GuiRun /\ dismiss_dialog
    \/ GuiRun /\ TimerTick
    \/ GuiRun /\ \E t \in Workers : w_begin(t)
    \/ GuiRun /\ \E t \in Workers : \E d \in HookInputs :
                     threads[t].hooks = 0 /\ w_hook(t, d)
    \/ GuiRun /\ \E t \in Workers : \E p \in 0 .. Len(timers) : w_lib_return(t, p)
    \/ GuiRun /\ \E t \in Workers : w_lib_raise(t)
    \/ GuiRun /\ \E t \in Workers : \E p \in 0 .. Len(timers) : w_after0(t, p)
    \/ GuiRun /\ \E t \in Workers : w_finally(t)

SpecPrograms == InitPrograms /\ [][NextPrograms]_vars

\* the info lookup alone, over every metadata answer of the model
InitInfo ==
    /\ GuiConstructed
    /\ out_dir_exists = FALSE
    /\ probe_results \in {{i} : i \in AllInfos}
    /\ CliNotStarted

NextInfo ==
    \/ \E u \in UrlInputs : on_url_change(u)
    \/ \E clip \in UrlInputs : paste_url(clip)
    \/ paste_no_clipboard
    \/ dismiss_dialog

SpecInfo == InitInfo /\ [][NextInfo]_vars

----------------------------------------------------------------------------
(* Claims about the command line program *)

SeqBatch  == HasComma /\ ~args.list_formats /\ ~args.concurrent
ConcBatch == HasComma /\ ~args.list_formats /\ args.concurrent
ErrorCaught == listing = "failed" \/ \E i \in Urls : task[i] = "failed"

\* C1 (as claimed): when a sequential batch has ended, every URL after a
\* failed one has had download_video invoked for it.
C1_SequentialFailureDoesNotStopLaterUrls ==
    (SeqBatch /\ pc = "exited") =>
        \A i \in Urls : task[i] = "failed" =>
            \A j \in Urls : j > i => task[j] # "none"

HeightCap == [q \in {"1080p", "1440p", "2160p"} |->
                 IF q = "1080p" THEN "1080" ELSE IF q = "1440p" THEN "1440" ELSE "2160"]

\* C5: every option bundle handed to the library is the documented one for
\* the requested tier: with --audio-only the best audio track plus an
\* FFmpegExtractAudio step to mp3 at 192, whatever -q says; otherwise best
\* video+audio for "best" and a height cap of 1080/1440/2160 for the other
\* tiers, merged to mp4, with no post-processing step.
C5_TierOptions ==
    \A o \in handed :
        IF args.audio_only
        THEN /\ o.format = "bestaudio/best"
             /\ "postprocessors" \in DOMAIN o
             /\ o.postprocessors = <<[key |-> "FFmpegExtractAudio",
                                      preferredcodec |-> "mp3",
                                      preferredquality |-> "192"]>>
        ELSE /\ "postprocessors" \notin DOMAIN o
             /\ o.merge_output_format = "mp4"
             /\ o.format =
                    IF args.quality = "best"
                    THEN "bestvideo+bestaudio/best"
                    ELSE "bestvideo[height<=" \o HeightCap[args.quality]
                         \o "]+bestaudio/best[height<=" \o HeightCap[args.quality] \o "]"

\* the library has been called for a 1440p video download
C5_Witness ==
    /\ handed # {}
    /\ ~args.audio_only
    /\ args.quality = "1440p"
    /\ \E i \in Urls : task[i] = "ok"

----------------------------------------------------------------------------
(* Claims about the GUI *)

\* cancel_download runs in this step
CancelCalled == cancel_tick' # cancel_tick

\* a download is active: the worker is inside the library call
DownloadActive == is_downloading /\ \E t \in Workers : threads[t].pc = "lib"

\* C6: a call of cancel_download while a download is active returns the
\* controller to idle: the status and the log show the cancellation, the
\* Download button is enabled, the Cancel button disabled, is_downloading is
\* false and no error is raised.
C6_CancelDuringDownloadReturnsToIdle ==
    [][(CancelCalled /\ DownloadActive)
         => /\ is_downloading' = FALSE
            /\ download_button' = "normal"
            /\ cancel_button' = "disabled"
            /\ status_var' = <<"Download cancelled">>
            /\ log_text' = Append(log_text, <<"Download cancelled by user">>)
            /\ callback_errors' = callback_errors]_vars

\* C7: a call of cancel_download before any download was started changes
\* no button, not the status, the log, the progress, is_downloading or the
\* last downloaded file, and raises no error.
C7_CancelBeforeStartIsNoOp ==
    [][(CancelCalled /\ download_thread = 0)
         => UNCHANGED <<download_button, cancel_button, play_button, status_var,
                        log_text, progress_var, is_downloading,
                        last_downloaded_file, callback_errors>>]_vars

\* cancel_download has run in a window that never started a download
C7_Witness ==
    /\ cancel_tick
    /\ download_thread = 0
    /\ threads = <<>>

\* C8: the info lookup shows "4K HDR 60FPS" for a maximum height of 3840 at
\* 60 fps with an HDR codec, and "1080p 30FPS" for a maximum height of 1080
\* at 30 fps without an HDR signal.
\* (format_var is non-empty exactly while the last lookup's result is shown.)
C8_QualityLabels ==
    format_var # "" =>
      \A info \in {video_info[i] : i \in 1 .. Len(video_info)} :
        LET s == Scan(info.formats)
            hdr == s.is_hdr \/ s.dynamic_range # ""
        IN  /\ (s.has_audio /\ s.max_height = 3840 /\ s.max_fps = 60 /\ hdr)
                  => format_var = "Video+Audio (4K HDR 60FPS)"
            /\ (s.has_audio /\ s.max_height = 1080 /\ s.max_fps = 30 /\ ~hdr)
                  => format_var = "Video+Audio (1080p 30FPS)"

\* C9: the controller leaves idle (a worker is spawned, is_downloading is
\* set) only in a start_download step whose stripped URL is non-empty and
\* holds an allow-listed domain; a start_download step with an empty or
\* unlisted URL spawns no worker and leaves the buttons, the progress, the
\* log and is_downloading unchanged.
C9_StartOnlyWithSupportedUrl ==
    [][LET url == Strip(url_entry)
       IN  /\ ((is_downloading' /\ ~is_downloading) \/ Len(threads') > Len(threads))
                 => (start_download /\ url # <<>> /\ DomainListed(url))
           /\ (start_download /\ (url = <<>> \/ ~DomainListed(url)))
                 => UNCHANGED <<threads, download_thread, timers, download_button,
                                cancel_button, play_button, progress_var, log_text,
                                is_downloading>>]_vars

\* start_download has refused an unlisted URL: its warning is open and no
\* worker exists
C9_Witness ==
    /\ dialogs = <<<<"warning", "Warning", "Please enter a supported video URL">>>>
    /\ Strip(url_entry) # <<>>
    /\ threads = <<>>
    /\ ~is_downloading
    /\ download_button = "normal"

\* the worker of download t has left download_video and every callback it
\* scheduled has run
Pending(t) == \E i \in 1 .. Len(timers) : timers[i].t = t
Returned(t) == t \in Workers /\ threads[t].pc = "done" /\ ~Pending(t)

\* C10: once the worker of a started download has finished, its callbacks
\* run, and then (for the latest download) the Download button is enabled,
\* the Cancel button disabled and the Play button enabled exactly when the
\* library call succeeded and the file path was recorded.
C10_DownloadReturnsToIdle ==
    /\ \A t \in 1 .. MaxDownloads :
          (t \in Workers /\ threads[t].pc = "done") ~> Returned(t)
    /\ [](\A t \in 1 .. MaxDownloads :
            (Returned(t) /\ t = Len(threads))
               => /\ download_button = "normal"
                  /\ cancel_button = "disabled"
                  /\ ~is_downloading
                  /\ play_button = "normal"
                       <=> (threads[t].result = "ok" /\ last_downloaded_file # <<>>))

\* a download whose library call raised has come back to idle
C10_Witness ==
    /\ Returned(1)
    /\ threads[1].result = "failed"
    /\ download_button = "normal"
    /\ play_button = "disabled"

\* download t is active: its worker has been started and has not yet left
\* the library session (the with block of lines 423-432)
Active(t) == t \in Workers /\ threads[t].pc \in {"start", "lib"}

\* C11: in every reachable state of a window, whatever the order of clicks
\* on Download and Cancel, worker steps and deferred callbacks, at most one
\* download is active.
C11_AtMostOneActiveDownload ==
    Cardinality({t \in 1 .. MaxDownloads : Active(t)}) <= 1

\* the second download is inside the library call while the worker of the
\* first is still in its finally block
C11_Witness ==
    /\ Len(threads) = 2
    /\ threads[1].pc = "fin3"
    /\ threads[2].pc = "lib"

\* a step in which the UI thread runs get_video_info, and with it
\* ydl.extract_info(url, download=False) (line 242): the call is made inside
\* the <KeyRelease> handler or the Paste button's command
ProbeCall ==
    \/ \E u \in UrlInputs :
          on_url_change(u) /\ Strip(u) # <<>> /\ DomainListed(Strip(u))
    \/ \E clip \in UrlInputs : paste_url(clip) /\ DomainListed(clip)

\* a step in which a worker thread enters ydl.extract_info(url, download=True)
DownloadCall == \E t \in Workers : w_begin(t)

\* C12: the UI thread never makes a blocking network call to the library:
\* every step in which the library is called for a download or for a
\* metadata probe is a step of a background thread.
C12_LibraryCallsOnlyOnWorkers ==
    [][(ProbeCall \/ DownloadCall) => DownloadCall]_vars

\* the callbacks of q that download_progress_hook scheduled for the progress
\* bar and the status line (lines 217 and 225, 228), in queue order
IsHookUpdate(cb) == cb.ms = 10 /\ cb.op \in {"update_progress", "update_status"}
HookUpdates(q) == SelectSeq(q, IsHookUpdate)

\* the callbacks a timer step runs, and what the last op among them sets
Applied == SubSeq(timers, 1, Len(timers) - Len(timers'))

RECURSIVE LastArg(_, _, _)
LastArg(cbs, op, now) ==
    IF cbs = <<>> THEN now
    ELSE LastArg(Tail(cbs), op, IF Head(cbs).op = op THEN Head(cbs).arg ELSE now)

\* C13: the progress and status updates of the progress hook reach the UI
\* in the order in which the hook fired: a hook call queues its updates
\* behind every update queued before, no step reorders the queued updates,
\* and a timer step applies the callbacks it runs in queue order, so that
\* the bar and the status line show the last of them.
C13_HookUpdatesInOrder ==
    [][/\ (\E t \in Workers : \E d \in HookInputs : w_hook(t, d))
            => /\ Len(timers') >= Len(timers)
               /\ SubSeq(timers', 1, Len(timers)) = timers
       /\ LET old == HookUpdates(timers)
              new == HookUpdates(timers')
          IN  \E k \in 0 .. Len(old) :
                 /\ Len(new) >= Len(old) - k
                 /\ SubSeq(new, 1, Len(old) - k) = SubSeq(old, k + 1, Len(old))
       /\ TimerTick
            => /\ progress_var' = LastArg(Applied, "update_progress", progress_var)
               /\ status_var' = LastArg(Applied, "update_status", status_var)]_vars

\* the hook has fired twice: the bar shows the first update while the
\* second is still queued
C13_Witness ==
    \E t \in Workers :
        /\ threads[t].hooks = 2
        /\ progress_var = 50
        /\ \E i \in 1 .. Len(timers) :
              timers[i].op = "update_progress" /\ timers[i].arg = 100

\* C14: the output directory exists whenever the library's download entry
\* point has been entered: in a single download of the command line program,
\* in every task of a sequential or concurrent batch, and in the worker of
\* the window.
C14_OutputDirExistsBeforeDownload ==
    /\ (\E i \in Urls : task[i] = "running") => dir_exists
    /\ (\E t \in Workers : threads[t].pc = "lib") => out_dir_exists

\* the window's worker is in the library call; the directory was missing
\* when the window opened
C14_Witness ==
    /\ \E t \in Workers : threads[t].pc = "lib"
    /\ out_dir_exists

\* line i of the log is the error line of log_message(f"Error: {str(e)}")
IsErrorLine(l) == Len(l) = 2 /\ l[1] = "Error: "

\* C15: when the library raises during a download, then, once the worker
\* has returned and its callbacks have run, the failure has been shown in
\* the error dialog and written to the log (neither callback failed), the
\* Download button is enabled, the Cancel button disabled, the Play button
\* still disabled and the last downloaded file path unchanged.
C15_FailureIsReported ==
    \A t \in 1 .. MaxDownloads :
        (Returned(t) /\ t = Len(threads) /\ threads[t].result = "failed")
           => /\ "NameError" \notin callback_errors
              /\ \E i \in 1 .. Len(log_text) : IsErrorLine(log_text[i])
              /\ download_button = "normal"
              /\ cancel_button = "disabled"
              /\ play_button = "disabled"
              /\ last_downloaded_file = <<>>

\* C16: whenever a download worker is in flight (started, its library call
\* not yet returned), the Download button is disabled and the Cancel button
\* enabled, whatever callbacks an earlier download has left behind.
C16_ButtonsWhileInFlight ==
    \A t \in 1 .. MaxDownloads :
        Active(t) => (download_button = "disabled" /\ cancel_button = "normal")

\* C17: after a download has succeeded, once every callback of that
\* download has run, the status line reads "Download completed
\* successfully!"; no progress or "finished" update of the same download
\* has overwritten it.
C17_CompletionStatusStays ==
    \A t \in 1 .. MaxDownloads :
        (Returned(t) /\ t = Len(threads) /\ threads[t].result = "ok")
           => status_var = <<"Download completed successfully!">>

=============================================================================
